---- MODULE Spec2Model ----
(***************************************************************************)
(* A model of the make-vec crate: Vec<T> (src/src/vec.rs), a growable      *)
(* array over a manually managed allocation, and RawVec<T>                 *)
(* (src/src/raw_vec.rs), a stand-alone owned buffer.                       *)
(*                                                                         *)
(* The heap is a map from addresses to blocks; a block is its size in      *)
(* bytes and the bit patterns of its element slots.  An element is a       *)
(* distinct identity 1, 2, 3, ..., so that a lost, duplicated or           *)
(* twice-disposed element shows.  A slot that was moved out of keeps its   *)
(* bit pattern, as memory does.                                            *)
(***************************************************************************)
EXTENDS Integers, Sequences, FiniteSets, TLC

\* ------------------------------------------------------------------ bounds
\* Elements ever placed into the Vec in one run.
MaxElems == 4
\* Successful calls of RawVec::grow in one run.
MaxRawGrows == 3
\* Addresses the allocator can hand out.
NumAddrs == 2

\* --------------------------------------------------------------- constants
\* mem::size_of::<T>() of the element type of the tests, i32.
ElemSize == 4
\* The null pointer the allocator returns on failure.
Null == 0
\* NonNull::dangling(): a well-aligned address that is no allocation.
Dangling == 1
\* The content of a slot of freshly allocated memory.
Uninit == 0

Addrs == (Dangling + 1)..(Dangling + NumAddrs)
Elems == 1..MaxElems
Indexes == 0..(MaxElems + 1)

VARIABLES
    heap,       \* the allocator's blocks: address -> [bytes, data]
    ub,         \* TRUE once an operation had undefined behaviour
    ptr,        \* Vec.ptr
    cap,        \* Vec.cap
    len,        \* Vec.len
    pc,         \* Vec: "live", "dropped", or "absent" in a run without one
    raw_ptr,    \* RawVec.ptr
    raw_cap,    \* RawVec.cap
    raw_pc,     \* RawVec: "live", "dropped", or "absent"
    nextId,     \* the identity of the next element placed
    lastOp,     \* the last call on the Vec: arguments, result, state before
    absList,    \* the mathematical list the same calls produce
    handed,     \* element -> times handed to the caller by pop or remove
    dropLog,    \* what Vec's drop did, in order
    grows,      \* successful grows of the Vec
    raw_grows,  \* successful grows of the RawVec
    raw_lastOp, \* the last call on the RawVec: result, requests, state before
    run         \* the current run of pushes from empty and the pops after it

vars == <<heap, ub, ptr, cap, len, pc, raw_ptr, raw_cap, raw_pc, nextId,
          lastOp, absList, handed, dropLog, grows, raw_grows, raw_lastOp, run>>

vecVars == <<ptr, cap, len, pc, nextId, lastOp, absList, handed, dropLog,
             grows, run>>
rawVars == <<raw_ptr, raw_cap, raw_pc, raw_grows, raw_lastOp>>

\* ------------------------------------------------------------ the allocator
FreeBlock == [bytes |-> 0, data |-> <<>>]

FreeAddrs(h) == {a \in Addrs : h[a].bytes = 0}

\* A block of `size` bytes: its slots hold nothing yet.
NewBlock(size) ==
    [bytes |-> size, data |-> [k \in 1..(size \div ElemSize) |-> Uninit]]

\* A block of `size` bytes holding the first bytes of `old`.
MovedBlock(old, size) ==
    [bytes |-> size,
     data |-> [k \in 1..(size \div ElemSize) |->
                 IF k <= Len(old.data) THEN old.data[k] ELSE Uninit]]

\* Layout::array::<T>(n).unwrap().size()
LayoutArray(n) == n * ElemSize

\* A request to the allocator: the function, the size in bytes of the layout
\* passed for the block at hand (0: none) and the size in bytes asked for
\* (0: none).
Request(fn, size, new_size) == [fn |-> fn, size |-> size, new_size |-> new_size]

\* alloc::alloc(layout): null, or any free address.
alloc(h, size) ==
    {[ptr |-> Null, heap |-> h, ub |-> FALSE, req |-> Request("alloc", 0, size)]}
    \cup {[ptr |-> a, heap |-> [h EXCEPT ![a] = NewBlock(size)], ub |-> FALSE,
           req |-> Request("alloc", 0, size)]
            : a \in FreeAddrs(h)}

\* The block at p was allocated with a layout of `size` bytes.
Allocated(h, p, size) == p \in Addrs /\ size > 0 /\ h[p].bytes = size

\* alloc::realloc(p, layout, new_size): undefined unless p is a block of that
\* layout; else null (the block is kept), or the block resized in place or moved.
realloc(h, p, size, new_size) ==
    IF ~Allocated(h, p, size)
    THEN {[ptr |-> Null, heap |-> h, ub |-> TRUE,
           req |-> Request("realloc", size, new_size)]}
    ELSE {[ptr |-> Null, heap |-> h, ub |-> FALSE,
           req |-> Request("realloc", size, new_size)]}
         \cup {[ptr |-> a,
                heap |-> [h EXCEPT ![p] = FreeBlock,
                                   ![a] = MovedBlock(h[p], new_size)],
                ub |-> FALSE,
                req |-> Request("realloc", size, new_size)]
                 : a \in FreeAddrs(h) \cup {p}}

\* alloc::dealloc(p, layout): undefined unless p is a block of that layout.
dealloc(h, p, size) ==
    IF ~Allocated(h, p, size)
    THEN [heap |-> h, ub |-> TRUE, req |-> Request("dealloc", size, 0)]
    ELSE [heap |-> [h EXCEPT ![p] = FreeBlock], ub |-> FALSE,
          req |-> Request("dealloc", size, 0)]

\* ------------------------------------------------------------ slot access
\* Slot i of the block at s.ptr exists.
SlotValid(s, i) == s.ptr \in Addrs /\ i >= 0 /\ i < Len(s.heap[s.ptr].data)

\* ptr.add(i).read(): the bits of slot i.
SlotAt(s, i) == IF SlotValid(s, i) THEN s.heap[s.ptr].data[i + 1] ELSE Uninit

\* Reading slot i as a T is undefined outside the block or on memory never
\* written.  s.reads and s.writes are the slots the call at hand has accessed.
ReadSlot(s, i) ==
    IF SlotValid(s, i) /\ SlotAt(s, i) # Uninit
    THEN [s EXCEPT !.reads = @ \cup {i}]
    ELSE [s EXCEPT !.ub = TRUE, !.reads = @ \cup {i}]

\* ptr.add(i).write(x)
WriteSlot(s, i, x) ==
    IF SlotValid(s, i)
    THEN [s EXCEPT !.heap[s.ptr].data[i + 1] = x, !.writes = @ \cup {i}]
    ELSE [s EXCEPT !.ub = TRUE, !.writes = @ \cup {i}]

\* Mutant of copy_to: a copy in ascending order that is not overlap-safe, so
\* a shift to the right repeats its first source slot.
CopySlots_ascending(s, from, to, count) ==
    IF SlotValid(s, from + count - 1) /\ SlotValid(s, to + count - 1)
    THEN [s EXCEPT !.heap[s.ptr].data =
            [k \in 1..Len(@) |->
                IF k - 1 >= to /\ k - 1 < to + count
                THEN (IF to > from THEN @[from + 1] ELSE @[k - to + from])
                ELSE @[k]]]
    ELSE [s EXCEPT !.ub = TRUE]

\* ptr.add(from).copy_to(ptr.add(to), count): an overlap-safe move of bits.
CopySlots(s, from, to, count) ==
    IF SlotValid(s, from + count - 1) /\ SlotValid(s, to + count - 1)
    THEN [s EXCEPT !.heap[s.ptr].data =
            [k \in 1..Len(@) |->
                IF k - 1 >= to /\ k - 1 < to + count
                THEN @[k - to + from] ELSE @[k]],
                   !.reads = @ \cup (from..(from + count - 1)),
                   !.writes = @ \cup (to..(to + count - 1))]
    ELSE [s EXCEPT !.ub = TRUE,
                   !.reads = @ \cup (from..(from + count - 1)),
                   !.writes = @ \cup (to..(to + count - 1))]

\* ------------------------------------------------------------ call results
NoDiag == [text |-> "", arg |-> <<>>]

Done(s, ret, grew) ==
    [st |-> s, outcome |-> "ok", diag |-> NoDiag, ret |-> ret, grew |-> grew]

Panic(s, text, arg, grew) ==
    [st |-> s, outcome |-> "panic", diag |-> [text |-> text, arg |-> arg],
     ret |-> <<>>, grew |-> grew]

\* -------------------------------------------------------------------- Vec
\* Vec::new(): no allocation, a dangling pointer.
Vec_new == [ptr |-> Dangling, cap |-> 0, len |-> 0]

\* Vec::grow: the capacity after a grow.
Vec_new_cap(c) == IF c = 0 THEN 1 ELSE c * 2

\* Mutant of Vec::grow: the byte count is doubled from the new capacity, so
\* doubled twice.
Vec_new_num_bytes_doubled_twice(c) == ((c * 2) * ElemSize) * 2

\* Vec::grow: old_num_bytes * 2, the size asked of realloc.
Vec_new_num_bytes(c) == (c * ElemSize) * 2

\* Vec::grow: the request to the allocator.
Vec_grow_request(s) ==
    IF s.cap = 0
    THEN alloc(s.heap, LayoutArray(1))
    ELSE realloc(s.heap, s.ptr, LayoutArray(s.cap), Vec_new_num_bytes(s.cap))

\* Mutant of Vec::grow: cap is assigned before the null check.
Vec_grow_cap_before_check(s) ==
    {IF r.ub THEN Done([s EXCEPT !.ub = TRUE, !.reqs = Append(@, r.req)],
                       <<>>, FALSE)
     ELSE IF r.ptr = Null
     THEN Panic([s EXCEPT !.cap = Vec_new_cap(s.cap),
                          !.reqs = Append(@, r.req)], "oom", <<>>, FALSE)
     ELSE Done([s EXCEPT !.ptr = r.ptr, !.cap = Vec_new_cap(s.cap),
                         !.heap = r.heap, !.reqs = Append(@, r.req)],
               <<>>, TRUE)
       : r \in Vec_grow_request(s)}

\* Vec::grow: panics "oom" on null before it touches ptr and cap.
Vec_grow(s) ==
    {IF r.ub THEN Done([s EXCEPT !.ub = TRUE, !.reqs = Append(@, r.req)],
                       <<>>, FALSE)
     ELSE IF r.ptr = Null
     THEN Panic([s EXCEPT !.reqs = Append(@, r.req)], "oom", <<>>, FALSE)
     ELSE Done([s EXCEPT !.ptr = r.ptr, !.cap = Vec_new_cap(s.cap),
                         !.heap = r.heap, !.reqs = Append(@, r.req)],
               <<>>, TRUE)
       : r \in Vec_grow_request(s)}

\* Mutant of the growth test: the Vec grows one element early.
Vec_grow_if_nearly_full(s) ==
    IF s.len + 1 >= s.cap THEN Vec_grow(s) ELSE {Done(s, <<>>, FALSE)}

\* Mutant of the growth test: `if self.len > self.cap`.
Vec_grow_if_over(s) ==
    IF s.len > s.cap THEN Vec_grow(s) ELSE {Done(s, <<>>, FALSE)}

\* `if self.len == self.cap { self.grow(); }`
Vec_grow_if_full(s) ==
    IF s.len = s.cap THEN Vec_grow(s) ELSE {Done(s, <<>>, FALSE)}

\* Vec::push
Vec_push(s, elem) ==
    {IF g.outcome = "panic" \/ g.st.ub THEN g
     ELSE Done([WriteSlot(g.st, g.st.len, elem) EXCEPT !.len = g.st.len + 1],
               <<>>, g.grew)
       : g \in Vec_grow_if_full(s)}

\* Mutant of Vec::pop: an empty Vec is a fatal condition, as it is in remove.
Vec_pop_empty_panics(s) ==
    IF s.len = 0 THEN Panic(s, "empty", <<>>, FALSE)
    ELSE LET s1 == [s EXCEPT !.len = s.len - 1]
         IN  Done(ReadSlot(s1, s1.len), <<SlotAt(s1, s1.len)>>, FALSE)

\* Mutant of Vec::pop: the slot is read before len is decremented.
Vec_pop_read_before_decrement(s) ==
    IF s.len = 0 THEN Done(s, <<>>, FALSE)
    ELSE Done([ReadSlot(s, s.len) EXCEPT !.len = s.len - 1],
              <<SlotAt(s, s.len)>>, FALSE)

\* Vec::pop: None on empty, else the element of the last slot.
Vec_pop(s) ==
    IF s.len = 0 THEN Done(s, <<>>, FALSE)
    ELSE LET s1 == [s EXCEPT !.len = s.len - 1]
         IN  Done(ReadSlot(s1, s1.len), <<SlotAt(s1, s1.len)>>, FALSE)

\* Mutant of Vec::insert: the shift moves one slot too many.
Vec_insert_long_shift(s, index, elem) ==
    {IF g.outcome = "panic" \/ g.st.ub THEN g
     ELSE IF index > g.st.len THEN Panic(g.st, "overflow", <<index>>, g.grew)
     ELSE LET move_count == g.st.len - index + 1
              shifted == IF move_count > 0
                         THEN CopySlots(g.st, index, index + 1, move_count)
                         ELSE g.st
          IN  Done([WriteSlot(shifted, index, elem) EXCEPT !.len = g.st.len + 1],
                   <<>>, g.grew)
       : g \in Vec_grow_if_full(s)}

\* Mutant of Vec::insert: the shift moves one element too few.
Vec_insert_short_shift(s, index, elem) ==
    {IF g.outcome = "panic" \/ g.st.ub THEN g
     ELSE IF index > g.st.len THEN Panic(g.st, "overflow", <<index>>, g.grew)
     ELSE LET move_count == g.st.len - index - 1
              shifted == IF move_count > 0
                         THEN CopySlots(g.st, index, index + 1, move_count)
                         ELSE g.st
          IN  Done([WriteSlot(shifted, index, elem) EXCEPT !.len = g.st.len + 1],
                   <<>>, g.grew)
       : g \in Vec_grow_if_full(s)}

\* Vec::insert: grows first, then checks the index.
Vec_insert(s, index, elem) ==
    {IF g.outcome = "panic" \/ g.st.ub THEN g
     ELSE IF index > g.st.len THEN Panic(g.st, "overflow", <<index>>, g.grew)
     ELSE LET move_count == g.st.len - index
              shifted == IF move_count > 0
                         THEN CopySlots(g.st, index, index + 1, move_count)
                         ELSE g.st
          IN  Done([WriteSlot(shifted, index, elem) EXCEPT !.len = g.st.len + 1],
                   <<>>, g.grew)
       : g \in Vec_grow_if_full(s)}

\* Mutant of Vec::remove: the gap is not closed when the first element goes.
Vec_remove_keeps_gap(s, index) ==
    IF s.len = 0 THEN Panic(s, "empty", <<>>, FALSE)
    ELSE IF index >= s.len THEN Panic(s, "out of index", <<>>, FALSE)
    ELSE LET value == SlotAt(s, index)
             s1 == ReadSlot(s, index)
             move_count == s.len - index - 1
             shifted == IF move_count > 0 /\ index > 0
                        THEN CopySlots(s1, index + 1, index, move_count)
                        ELSE s1
         IN  Done([shifted EXCEPT !.len = s.len - 1], <<value>>, FALSE)

\* Mutant of Vec::remove: the bound check lets index == len through.
Vec_remove_loose_check(s, index) ==
    IF s.len = 0 THEN Panic(s, "empty", <<>>, FALSE)
    ELSE IF index > s.len THEN Panic(s, "out of index", <<>>, FALSE)
    ELSE LET value == SlotAt(s, index)
             s1 == ReadSlot(s, index)
             move_count == s.len - index - 1
             shifted == IF move_count > 0
                        THEN CopySlots(s1, index + 1, index, move_count)
                        ELSE s1
         IN  Done([shifted EXCEPT !.len = s.len - 1], <<value>>, FALSE)

\* Mutant of Vec::remove: the value is read after the shift has overwritten it.
Vec_remove_read_after_shift(s, index) ==
    IF s.len = 0 THEN Panic(s, "empty", <<>>, FALSE)
    ELSE IF index >= s.len THEN Panic(s, "out of index", <<>>, FALSE)
    ELSE LET s1 == ReadSlot(s, index)
             move_count == s.len - index - 1
             shifted == IF move_count > 0
                        THEN CopySlots(s1, index + 1, index, move_count)
                        ELSE s1
         IN  Done([shifted EXCEPT !.len = s.len - 1],
                  <<SlotAt(shifted, index)>>, FALSE)

\* Vec::remove
Vec_remove(s, index) ==
    IF s.len = 0 THEN Panic(s, "empty", <<>>, FALSE)
    ELSE IF index >= s.len THEN Panic(s, "out of index", <<>>, FALSE)
    ELSE LET value == SlotAt(s, index)
             s1 == ReadSlot(s, index)
             move_count == s.len - index - 1
             shifted == IF move_count > 0
                        THEN CopySlots(s1, index + 1, index, move_count)
                        ELSE s1
         IN  Done([shifted EXCEPT !.len = s.len - 1], <<value>>, FALSE)

\* Deref for Vec: slice::from_raw_parts(ptr, len).
Vec_deref(s) == [k \in 1..s.len |-> SlotAt(s, k - 1)]

\* DerefMut for Vec: slice::from_raw_parts_mut(ptr, len).
Vec_deref_mut(s) == [k \in 1..s.len |-> SlotAt(s, k - 1)]

\* The slots a slice of n elements at the base of the block gives access to.
SliceSlots(n) == 0..(n - 1)

\* Drop for Vec, the loop `while let Some(_) = self.pop() {}`: each element
\* popped is destructed at once.
RECURSIVE Vec_drop_loop(_, _)
Vec_drop_loop(s, log) ==
    LET r == Vec_pop(s)
    IN  IF r.ret = <<>> THEN [st |-> r.st, log |-> log]
        ELSE Vec_drop_loop(r.st, Append(log, [ev |-> "destruct", arg |-> r.ret[1]]))

\* Mutant of Drop for Vec: the allocation is released, the elements are not
\* destructed.
Vec_drop_no_destruct(s) ==
    IF s.cap # 0
    THEN LET d == dealloc(s.heap, s.ptr, LayoutArray(s.cap))
         IN  [st |-> [s EXCEPT !.len = 0, !.heap = d.heap, !.ub = @ \/ d.ub],
              log |-> <<[ev |-> "dealloc", arg |-> s.ptr]>>]
    ELSE [st |-> s, log |-> <<>>]

\* Mutant of Drop for Vec: the allocation is released before the elements
\* are popped.
Vec_drop_dealloc_first(s) ==
    IF s.cap # 0
    THEN LET d == dealloc(s.heap, s.ptr, LayoutArray(s.cap))
             p == Vec_drop_loop(s, <<[ev |-> "dealloc", arg |-> s.ptr]>>)
         IN  [st |-> [p.st EXCEPT !.heap = d.heap, !.ub = @ \/ d.ub],
              log |-> p.log]
    ELSE [st |-> s, log |-> <<>>]

\* Drop for Vec: nothing without an allocation; else pop all, then dealloc.
Vec_drop(s) ==
    IF s.cap # 0
    THEN LET p == Vec_drop_loop(s, <<>>)
             d == dealloc(p.st.heap, p.st.ptr, LayoutArray(p.st.cap))
         IN  [st |-> [p.st EXCEPT !.heap = d.heap, !.ub = @ \/ d.ub,
                                  !.reqs = Append(@, d.req)],
              log |-> Append(p.log, [ev |-> "dealloc", arg |-> p.st.ptr])]
    ELSE [st |-> s, log |-> <<>>]

\* ----------------------------------------------------------------- RawVec
\* RawVec::new()
RawVec_new == [ptr |-> Dangling, cap |-> 0]

\* Mutant of RawVec::grow: the capacity grows by one slot.
RawVec_new_cap_plus_one(c) == c + 1

\* RawVec::grow: the capacity after a grow.
RawVec_new_cap(c) == IF c = 0 THEN 1 ELSE c * 2

\* Mutant of RawVec::grow: the byte count is doubled from the new capacity.
RawVec_new_num_bytes_of_new_cap(c) == (RawVec_new_cap(c) * ElemSize) * 2

\* RawVec::grow: old_num_bytes * 2, the size asked of realloc.
RawVec_new_num_bytes(c) == (c * ElemSize) * 2

\* RawVec::grow: the request to the allocator.
RawVec_grow_request(s) ==
    IF s.cap = 0
    THEN alloc(s.heap, LayoutArray(1))
    ELSE realloc(s.heap, s.ptr, LayoutArray(s.cap), RawVec_new_num_bytes(s.cap))

\* RawVec::grow
RawVec_grow(s) ==
    {IF r.ub THEN Done([s EXCEPT !.ub = TRUE, !.reqs = Append(@, r.req)],
                       <<>>, FALSE)
     ELSE IF r.ptr = Null
     THEN Panic([s EXCEPT !.reqs = Append(@, r.req)], "oom", <<>>, FALSE)
     ELSE Done([s EXCEPT !.ptr = r.ptr, !.cap = RawVec_new_cap(s.cap),
                         !.heap = r.heap, !.reqs = Append(@, r.req)],
               <<>>, TRUE)
       : r \in RawVec_grow_request(s)}

\* Drop for RawVec
RawVec_drop(s) ==
    IF s.cap # 0
    THEN LET d == dealloc(s.heap, s.ptr, LayoutArray(s.cap))
         IN  [s EXCEPT !.heap = d.heap, !.ub = @ \/ d.ub,
                       !.reqs = Append(@, d.req)]
    ELSE s

\* ------------------------------------------------------- the state machine
\* The Vec and the heap it lives in.
\* A call starts with no request issued and no slot accessed.
St == [ptr |-> ptr, cap |-> cap, len |-> len, heap |-> heap, ub |-> ub,
       reqs |-> <<>>, reads |-> {}, writes |-> {}]

\* The RawVec and the heap it lives in.
RawSt == [ptr |-> raw_ptr, cap |-> raw_cap, heap |-> heap, ub |-> ub,
          reqs |-> <<>>, reads |-> {}, writes |-> {}]

\* The mathematical list after each call.
AbsInsert(l, i, x) ==
    IF i <= Len(l) THEN SubSeq(l, 1, i) \o <<x>> \o SubSeq(l, i + 1, Len(l)) ELSE l
AbsRemove(l, i) ==
    IF i < Len(l) THEN SubSeq(l, 1, i) \o SubSeq(l, i + 2, Len(l)) ELSE l
AbsPop(l) == IF l = <<>> THEN l ELSE SubSeq(l, 1, Len(l) - 1)

\* The record of a call on the Vec: what was passed, what came back, the Vec
\* before the call and, for a remove(i) that directly follows a successful
\* insert(i, x), the view before that insert, x, and whether the insert grew.
Call(op, index, elem, r) ==
    [op |-> op, index |-> index, elem |-> elem, ret |-> r.ret,
     outcome |-> r.outcome, diag |-> r.diag, grew |-> r.grew,
     pre |-> [ptr |-> ptr, cap |-> cap, len |-> len, heap |-> heap],
     reqs |-> r.st.reqs, reads |-> r.st.reads, writes |-> r.st.writes,
     undo |-> IF /\ op = "remove" /\ lastOp.op = "insert"
                 /\ lastOp.outcome = "ok" /\ lastOp.index = index
              THEN <<[view |-> Vec_deref(lastOp.pre), elem |-> lastOp.elem,
                      grew |-> lastOp.grew]>>
              ELSE <<>>]

\* The record of a call on the RawVec.
RawCall(op, r) ==
    [op |-> op, outcome |-> r.outcome, diag |-> r.diag, grew |-> r.grew,
     reqs |-> r.st.reqs,
     pre |-> [ptr |-> raw_ptr, cap |-> raw_cap, heap |-> heap]]

NoRun == [phase |-> "off", pushes |-> <<>>, pops |-> <<>>]

\* A push onto an empty Vec starts a run; a push in a run of pushes extends it.
RunAfterPush(r, x) ==
    IF r.outcome # "ok" THEN NoRun
    ELSE IF len = 0 THEN [phase |-> "push", pushes |-> <<x>>, pops |-> <<>>]
    ELSE IF run.phase = "push" THEN [run EXCEPT !.pushes = Append(@, x)]
    ELSE NoRun

\* The pops after a run of N pushes are recorded up to the (N+1)st.
RunAfterPop(r) ==
    IF run.phase = "off" \/ Len(run.pops) > Len(run.pushes) THEN run
    ELSE [run EXCEPT !.phase = "pop", !.pops = Append(@, r.ret)]

SetVec(r) ==
    /\ ptr' = r.st.ptr
    /\ cap' = r.st.cap
    /\ len' = r.st.len
    /\ heap' = r.st.heap
    /\ ub' = r.st.ub
    /\ grows' = grows + (IF r.grew THEN 1 ELSE 0)

NewCall ==
    [op |-> "new", index |-> <<>>, elem |-> <<>>, ret |-> <<>>,
     outcome |-> "ok", diag |-> NoDiag, grew |-> FALSE,
     pre |-> [ptr |-> Vec_new.ptr, cap |-> Vec_new.cap, len |-> Vec_new.len,
              heap |-> [a \in Addrs |-> FreeBlock]],
     reqs |-> <<>>, reads |-> {}, writes |-> {},
     undo |-> <<>>]

NewRawCall ==
    [op |-> "new", outcome |-> "ok", diag |-> NoDiag, grew |-> FALSE,
     reqs |-> <<>>,
     pre |-> [ptr |-> RawVec_new.ptr, cap |-> RawVec_new.cap,
              heap |-> [a \in Addrs |-> FreeBlock]]]

\* A run owns one container: a Vec or a RawVec, just constructed.  The two
\* types share no state, so a run over both is a run over each.
Init ==
    /\ heap = [a \in Addrs |-> FreeBlock]
    /\ ub = FALSE
    /\ ptr = Vec_new.ptr
    /\ cap = Vec_new.cap
    /\ len = Vec_new.len
    /\ raw_ptr = RawVec_new.ptr
    /\ raw_cap = RawVec_new.cap
    /\ \/ pc = "live" /\ raw_pc = "absent"
       \/ pc = "absent" /\ raw_pc = "live"
    /\ nextId = 1
    /\ lastOp = NewCall
    /\ absList = <<>>
    /\ handed = [e \in Elems \cup {Uninit} |-> 0]
    /\ dropLog = <<>>
    /\ grows = 0
    /\ raw_grows = 0
    /\ raw_lastOp = NewRawCall
    /\ run = [phase |-> "push", pushes |-> <<>>, pops |-> <<>>]

\* v.push(elem), elem a new element.  An element offered to a call that
\* panics never enters the Vec (the unwinding call destructs it), and the
\* next call offers a new element under the same identity.  A panic does not
\* end the run: the caller may catch it and go on, or let the Vec drop.
Push ==
    /\ pc = "live" /\ ~ub /\ nextId <= MaxElems
    /\ \E r \in Vec_push(St, nextId) :
          /\ SetVec(r)
          /\ lastOp' = Call("push", <<>>, <<nextId>>, r)
          /\ nextId' = IF r.outcome = "ok" THEN nextId + 1 ELSE nextId
          /\ absList' = IF r.outcome = "ok" THEN Append(absList, nextId) ELSE absList
          /\ run' = RunAfterPush(r, nextId)
    /\ UNCHANGED <<pc, handed, dropLog, rawVars>>

\* v.pop()
Pop ==
    /\ pc = "live" /\ ~ub
    /\ LET r == Vec_pop(St) IN
          /\ SetVec(r)
          /\ lastOp' = Call("pop", <<>>, <<>>, r)
          /\ handed' = IF r.ret = <<>> THEN handed
                       ELSE [handed EXCEPT ![r.ret[1]] = @ + 1]
          /\ absList' = AbsPop(absList)
          /\ run' = RunAfterPop(r)
    /\ UNCHANGED <<pc, nextId, dropLog, rawVars>>

\* v.insert(index, elem), elem a new element.
Insert ==
    /\ pc = "live" /\ ~ub /\ nextId <= MaxElems
    /\ \E index \in Indexes : \E r \in Vec_insert(St, index, nextId) :
          /\ SetVec(r)
          /\ lastOp' = Call("insert", <<index>>, <<nextId>>, r)
          /\ nextId' = IF r.outcome = "ok" THEN nextId + 1 ELSE nextId
          /\ absList' = IF r.outcome = "ok" THEN AbsInsert(absList, index, nextId)
                        ELSE absList
          /\ run' = NoRun
    /\ UNCHANGED <<pc, handed, dropLog, rawVars>>

\* v.remove(index)
Remove ==
    /\ pc = "live" /\ ~ub
    /\ \E index \in Indexes :
          LET r == Vec_remove(St, index) IN
          /\ SetVec(r)
          /\ lastOp' = Call("remove", <<index>>, <<>>, r)
          /\ handed' = IF r.ret = <<>> THEN handed
                       ELSE [handed EXCEPT ![r.ret[1]] = @ + 1]
          /\ absList' = AbsRemove(absList, index)
          /\ run' = NoRun
    /\ UNCHANGED <<pc, nextId, dropLog, rawVars>>

\* &*v or &mut *v: the slice over the live slots.  What the caller does
\* through the slice is the caller's; taking it changes nothing.
Deref ==
    /\ pc = "live" /\ ~ub
    /\ \E m \in {"deref", "deref_mut"} :
          LET view == IF m = "deref" THEN Vec_deref(St) ELSE Vec_deref_mut(St)
              r == Done([St EXCEPT !.reads = SliceSlots(Len(view))], view, FALSE)
          IN  /\ SetVec(r)
              /\ lastOp' = Call(m, <<>>, <<>>, r)
    /\ UNCHANGED <<pc, nextId, absList, handed, dropLog, run, rawVars>>

\* The Vec goes out of scope, at the end of its life or while a panic unwinds.
Drop ==
    /\ pc = "live" /\ ~ub
    /\ LET r == Vec_drop(St) IN
          /\ ptr' = r.st.ptr
          /\ cap' = r.st.cap
          /\ len' = r.st.len
          /\ heap' = r.st.heap
          /\ ub' = r.st.ub
          /\ dropLog' = r.log
          /\ lastOp' = Call("drop", <<>>, <<>>, Done(r.st, <<>>, FALSE))
    /\ pc' = "dropped"
    /\ UNCHANGED <<nextId, absList, handed, grows, run, rawVars>>

\* raw.grow()
RawGrow ==
    /\ raw_pc = "live" /\ ~ub /\ raw_grows < MaxRawGrows
    /\ \E r \in RawVec_grow(RawSt) :
          /\ raw_ptr' = r.st.ptr
          /\ raw_cap' = r.st.cap
          /\ heap' = r.st.heap
          /\ ub' = r.st.ub
          /\ raw_grows' = raw_grows + (IF r.grew THEN 1 ELSE 0)
          /\ raw_lastOp' = RawCall("grow", r)
    /\ raw_pc' = "live"
    /\ UNCHANGED vecVars

\* The RawVec goes out of scope.
RawDrop ==
    /\ raw_pc = "live" /\ ~ub
    /\ LET s == RawVec_drop(RawSt) IN
          /\ raw_ptr' = s.ptr
          /\ raw_cap' = s.cap
          /\ heap' = s.heap
          /\ ub' = s.ub
          /\ raw_lastOp' = RawCall("drop", Done(s, <<>>, FALSE))
    /\ raw_pc' = "dropped"
    /\ UNCHANGED <<raw_grows, vecVars>>

Next == Push \/ Pop \/ Insert \/ Remove \/ Deref \/ Drop \/ RawGrow \/ RawDrop

Spec == Init /\ [][Next]_vars

\* ------------------------------------------------- Vec and RawVec together
\* A Vec and a RawVec, both just constructed, in one heap.
InitPair ==
    /\ heap = [a \in Addrs |-> FreeBlock]
    /\ ub = FALSE
    /\ ptr = Vec_new.ptr
    /\ cap = Vec_new.cap
    /\ len = Vec_new.len
    /\ raw_ptr = RawVec_new.ptr
    /\ raw_cap = RawVec_new.cap
    /\ pc = "live" /\ raw_pc = "live"
    /\ nextId = 1
    /\ lastOp = NewCall
    /\ absList = <<>>
    /\ handed = [e \in Elems \cup {Uninit} |-> 0]
    /\ dropLog = <<>>
    /\ grows = 0
    /\ raw_grows = 0
    /\ raw_lastOp = NewRawCall
    /\ run = NoRun

\* The RawVec beside a call r on the Vec: raw.grow() when the call ran
\* Vec::grow (it put a request to the allocator), the allocator answering the
\* RawVec as it answered the Vec; nothing otherwise.
RawBeside(r) ==
    LET s == [RawSt EXCEPT !.heap = r.st.heap, !.ub = r.st.ub]
    IN  IF r.st.reqs = <<>>
        THEN {Done(s, <<>>, FALSE)}
        ELSE {q \in RawVec_grow(s) : q.grew = r.grew}

\* A call r on the Vec with the RawVec beside it.
PairCall(op, index, elem, r) ==
    /\ ptr' = r.st.ptr
    /\ cap' = r.st.cap
    /\ len' = r.st.len
    /\ grows' = grows + (IF r.grew THEN 1 ELSE 0)
    /\ lastOp' = Call(op, index, elem, r)
    /\ \E q \in RawBeside(r) :
          /\ raw_ptr' = q.st.ptr
          /\ raw_cap' = q.st.cap
          /\ heap' = q.st.heap
          /\ ub' = q.st.ub
          /\ raw_grows' = raw_grows + (IF q.grew THEN 1 ELSE 0)
          /\ raw_lastOp' = RawCall(IF r.st.reqs = <<>> THEN "rest" ELSE "grow", q)

\* v.push(elem), and raw.grow() if the push grew the Vec.
PairPush ==
    /\ pc = "live" /\ raw_pc = "live" /\ ~ub /\ nextId <= MaxElems
    /\ \E r \in Vec_push(St, nextId) :
          /\ PairCall("push", <<>>, <<nextId>>, r)
          /\ nextId' = IF r.outcome = "ok" THEN nextId + 1 ELSE nextId
          /\ absList' = IF r.outcome = "ok" THEN Append(absList, nextId) ELSE absList
    /\ UNCHANGED <<pc, raw_pc, handed, dropLog, run>>

\* v.insert(index, elem), and raw.grow() if the insert grew the Vec.
PairInsert ==
    /\ pc = "live" /\ raw_pc = "live" /\ ~ub /\ nextId <= MaxElems
    /\ \E index \in Indexes : \E r \in Vec_insert(St, index, nextId) :
          /\ PairCall("insert", <<index>>, <<nextId>>, r)
          /\ nextId' = IF r.outcome = "ok" THEN nextId + 1 ELSE nextId
          /\ absList' = IF r.outcome = "ok" THEN AbsInsert(absList, index, nextId)
                        ELSE absList
    /\ UNCHANGED <<pc, raw_pc, handed, dropLog, run>>

\* v.pop(), which never grows the Vec.
PairPop ==
    /\ pc = "live" /\ raw_pc = "live" /\ ~ub
    /\ LET r == Vec_pop(St) IN
          /\ PairCall("pop", <<>>, <<>>, r)
          /\ handed' = IF r.ret = <<>> THEN handed
                       ELSE [handed EXCEPT ![r.ret[1]] = @ + 1]
          /\ absList' = AbsPop(absList)
    /\ UNCHANGED <<pc, raw_pc, nextId, dropLog, run>>

\* Both go out of scope, the Vec first.
PairDrop ==
    /\ pc = "live" /\ raw_pc = "live" /\ ~ub
    /\ LET r == Vec_drop(St)
           s == RawVec_drop([RawSt EXCEPT !.heap = r.st.heap, !.ub = r.st.ub])
       IN  /\ ptr' = r.st.ptr
           /\ cap' = r.st.cap
           /\ len' = r.st.len
           /\ dropLog' = r.log
           /\ lastOp' = Call("drop", <<>>, <<>>, Done(r.st, <<>>, FALSE))
           /\ raw_ptr' = s.ptr
           /\ raw_cap' = s.cap
           /\ heap' = s.heap
           /\ ub' = s.ub
           /\ raw_lastOp' = RawCall("drop", Done(s, <<>>, FALSE))
    /\ pc' = "dropped" /\ raw_pc' = "dropped"
    /\ UNCHANGED <<nextId, absList, handed, grows, raw_grows, run>>

NextPair == PairPush \/ PairInsert \/ PairPop \/ PairDrop

SpecPair == InitPair /\ [][NextPair]_vars

\* ------------------------------------------------------------------ typing
TypeOK ==
    /\ ub \in BOOLEAN
    /\ ptr \in Addrs \cup {Dangling}
    /\ cap \in Nat /\ len \in Nat
    /\ pc \in {"live", "dropped", "absent"}
    /\ raw_pc \in {"live", "dropped", "absent"}
    /\ nextId \in 1..(MaxElems + 1)

\* ------------------------------------------------------------------ claims
\* The read view of the Vec, and of the Vec as it was before the last call.
View == Vec_deref(St)
PreView == Vec_deref(lastOp.pre)

\* C1. Push/pop symmetry: after a run of N pushes onto an empty Vec, the
\* k-th pop (k <= N) returns Some of the (N+1-k)-th value pushed, and the
\* (N+1)-st pop returns None.
C1_PushPopSymmetry ==
    run.phase = "pop" =>
        LET n == Len(run.pushes) IN
        \A k \in 1..Len(run.pops) :
            run.pops[k] = IF k <= n THEN <<run.pushes[n + 1 - k]>> ELSE <<>>

\* C1 witness: a run of at least two pushes that started on a Vec emptied by
\* earlier pops has been popped to the end and once more.
C1_Witness ==
    /\ run.phase = "pop"
    /\ Len(run.pushes) >= 2
    /\ run.pushes[1] # 1
    /\ Len(run.pops) = Len(run.pushes) + 1

\* C2. Contiguity: after any sequence of push, pop, insert and remove the
\* read view has len elements and is the mathematical list the same calls
\* produce: the live elements in occupancy order, each slot initialised.
C2_Contiguity ==
    pc = "live" =>
        /\ Len(View) = len
        /\ View = absList
        /\ \A k \in 1..len : View[k] \in 1..(nextId - 1)

\* C2 witness: a successful remove has left at least three elements of which
\* an earlier insert put a later element before an earlier one.
C2_Witness ==
    /\ pc = "live"
    /\ lastOp.op = "remove" /\ lastOp.outcome = "ok"
    /\ len >= 3
    /\ View[1] > View[2]

\* C3. insert(index, x) with index <= len, unless the allocator fails, leaves
\* old[0..index), x, old[index..len): len grows by one and no element is lost,
\* duplicated or reordered, with or without a growth.
C3_InsertShifts ==
    (/\ lastOp.op = "insert"
     /\ lastOp.index[1] <= lastOp.pre.len
     /\ lastOp.diag.text # "oom")
    => LET i == lastOp.index[1] IN
       /\ lastOp.outcome = "ok"
       /\ len = lastOp.pre.len + 1
       /\ View = SubSeq(PreView, 1, i) \o lastOp.elem
                    \o SubSeq(PreView, i + 1, lastOp.pre.len)

\* C3 witness: an insert strictly inside a Vec of at least two elements that
\* was full, so that it grew and shifted.
C3_Witness ==
    /\ lastOp.op = "insert" /\ lastOp.outcome = "ok" /\ lastOp.grew
    /\ lastOp.pre.len >= 2
    /\ lastOp.index[1] > 0 /\ lastOp.index[1] < lastOp.pre.len

\* C4. remove(index) with index < len returns the element that was at index
\* and leaves old[0..index), old[index+1..len): len shrinks by one and the
\* rest keeps its order.
C4_RemoveShifts ==
    (lastOp.op = "remove" /\ lastOp.index[1] < lastOp.pre.len)
    => LET i == lastOp.index[1] IN
       /\ lastOp.outcome = "ok"
       /\ lastOp.ret = <<PreView[i + 1]>>
       /\ len = lastOp.pre.len - 1
       /\ View = SubSeq(PreView, 1, i) \o SubSeq(PreView, i + 2, lastOp.pre.len)

\* C4 witness: a remove strictly inside a Vec of at least three elements.
C4_Witness ==
    /\ lastOp.op = "remove" /\ lastOp.outcome = "ok"
    /\ lastOp.pre.len >= 3
    /\ lastOp.index[1] > 0 /\ lastOp.index[1] < lastOp.pre.len - 1

\* C5. Insert/remove inverse: remove(i) directly after a successful
\* insert(i, x) returns x and leaves the length and the view as they were
\* before the insert.
C5_InsertRemoveInverse ==
    lastOp.undo # <<>> =>
        /\ lastOp.outcome = "ok"
        /\ lastOp.ret = lastOp.undo[1].elem
        /\ len = Len(lastOp.undo[1].view)
        /\ View = lastOp.undo[1].view

\* C5 witness: such a pair strictly inside a Vec that held at least two
\* elements and was full before the insert.
C5_Witness ==
    /\ lastOp.undo # <<>>
    /\ Len(lastOp.undo[1].view) >= 2
    /\ lastOp.index[1] > 0 /\ lastOp.index[1] < Len(lastOp.undo[1].view)
    /\ lastOp.undo[1].grew

\* C6. Boundary fatal conditions: insert with index > len panics, remove with
\* index >= len panics (on an empty Vec: every index), and a panicking call
\* returns nothing; insert with index <= len panics only when the allocator
\* fails, and remove with index < len never panics.
C6_BoundaryFatal ==
    /\ lastOp.op = "insert" =>
          /\ lastOp.index[1] > lastOp.pre.len => lastOp.outcome = "panic"
          /\ (lastOp.index[1] <= lastOp.pre.len /\ lastOp.outcome = "panic")
                => lastOp.diag.text = "oom"
    /\ lastOp.op = "remove" =>
          (lastOp.outcome = "panic") = (lastOp.index[1] >= lastOp.pre.len)
    /\ lastOp.outcome = "panic" => lastOp.ret = <<>>

\* C6 witness: an insert past the end of a non-empty Vec has panicked on its
\* index.
C6_Witness ==
    /\ lastOp.op = "insert" /\ lastOp.outcome = "panic"
    /\ lastOp.diag.text = "overflow"
    /\ lastOp.pre.len >= 1

\* The Vec as a call on it found it.
VecFields == [ptr |-> ptr, cap |-> cap, len |-> len, heap |-> heap]

\* C7. Bounds checks happen before any mutation: when insert fails on its
\* index, or remove fails on an empty Vec or on its index, then len, cap, ptr,
\* the allocation and the slot contents are what they were before the call.
C7_NoMutationBeforeFatal ==
    (/\ lastOp.op \in {"insert", "remove"}
     /\ lastOp.outcome = "panic"
     /\ lastOp.diag.text \in {"overflow", "empty", "out of index"})
    => VecFields = lastOp.pre

\* C8. No leak, no double destruct: once the Vec is dropped, every element
\* placed into it was either handed to the caller by one pop or remove or
\* destructed once by drop, and nothing else was handed out or destructed.
Destructs(e) ==
    Cardinality({k \in 1..Len(dropLog) :
                    dropLog[k].ev = "destruct" /\ dropLog[k].arg = e})

C8_DisposedExactlyOnce ==
    /\ pc = "dropped" =>
          \A e \in DOMAIN handed :
              handed[e] + Destructs(e) = IF e \in 1..(nextId - 1) THEN 1 ELSE 0
    /\ pc = "live" =>
          \A e \in DOMAIN handed :
              handed[e] = IF e \in 1..(nextId - 1) /\ \A k \in 1..len : View[k] # e
                          THEN 1 ELSE 0

\* C8 witness: a Vec is dropped after a pop or remove handed an element out,
\* with at least two elements left for drop to destruct.
C8_Witness ==
    /\ pc = "dropped"
    /\ \E e \in DOMAIN handed : handed[e] = 1
    /\ \E e, f \in DOMAIN handed : e # f /\ Destructs(e) = 1 /\ Destructs(f) = 1

\* C9. Destruction order: drop destructs the live elements from slot len-1
\* down to slot 0, each once, and releases the allocation after the last of
\* them; without an allocation it does nothing.
C9_DropOrder ==
    (pc = "dropped" /\ lastOp.op = "drop") =>
        /\ len = 0
        /\ dropLog =
             IF lastOp.pre.cap = 0 THEN <<>>
             ELSE [k \in 1..lastOp.pre.len |->
                     [ev |-> "destruct", arg |-> PreView[lastOp.pre.len + 1 - k]]]
                  \o <<[ev |-> "dealloc", arg |-> lastOp.pre.ptr]>>
        /\ \A a \in Addrs : heap[a] = FreeBlock

\* C9 witness: a Vec of at least three elements, not in the order they were
\* created in, has been dropped.
C9_Witness ==
    /\ pc = "dropped" /\ lastOp.op = "drop"
    /\ lastOp.pre.len >= 3
    /\ PreView[1] > PreView[2]

\* The capacity after n successful grows from empty: 0, 1, 2, 4, 8, ...
CapAfter(n) == IF n = 0 THEN 0 ELSE 2 ^ (n - 1)

\* C10. Growth doubling: after n successful grows the capacity is 0 for
\* n = 0 and 2^(n-1) after, for RawVec::grow and for the growth that push and
\* insert trigger on a full Vec.
C10_GrowthDoubling ==
    /\ pc # "absent" => cap = CapAfter(grows)
    /\ raw_pc # "absent" => raw_cap = CapAfter(raw_grows)
    /\ (lastOp.op \in {"push", "insert"} /\ lastOp.grew) =>
          /\ lastOp.pre.len = lastOp.pre.cap
          /\ cap = IF lastOp.pre.cap = 0 THEN 1 ELSE lastOp.pre.cap * 2

\* C10 witness: the third growth of a Vec, triggered by an insert, has taken
\* the capacity from 2 to 4.
C10_Witness ==
    /\ lastOp.op = "insert" /\ lastOp.grew
    /\ grows = 3
    /\ cap = 4

\* C11. pop on an empty Vec returns None by the normal path and leaves len,
\* cap, ptr and the heap as they were, asks nothing of the allocator and
\* touches no slot, whether the Vec never grew or was emptied after growth;
\* a pop after it finds the same.
C11_PopOnEmpty ==
    (lastOp.op = "pop" /\ lastOp.pre.len = 0) =>
        /\ lastOp.outcome = "ok"
        /\ lastOp.ret = <<>>
        /\ lastOp.diag = NoDiag
        /\ VecFields = lastOp.pre
        /\ lastOp.reqs = <<>>
        /\ lastOp.reads = {} /\ lastOp.writes = {}
        /\ ~ub

\* C11 witness: pop has returned None on a Vec that grew to hold at least
\* two slots and was emptied again.  (A further pop leads to this same state.)
C11_Witness ==
    /\ lastOp.op = "pop" /\ lastOp.pre.len = 0 /\ lastOp.ret = <<>>
    /\ lastOp.pre.cap >= 2

\* C12. In every state of a Vec, after calls that returned and calls that
\* panicked alike, 0 <= len <= cap.
C12_LenWithinCap ==
    pc # "absent" => (0 <= len /\ len <= cap)

\* C12 witness: a call has panicked on a full Vec of at least two elements.
C12_Witness ==
    /\ pc = "live"
    /\ lastOp.outcome = "panic"
    /\ len = cap /\ len >= 2

\* C13. insert with index > len fails fatally with a diagnostic that names
\* the index the caller passed.
C13_InsertDiagNamesIndex ==
    (lastOp.op = "insert" /\ lastOp.index[1] > lastOp.pre.len) =>
        /\ lastOp.outcome = "panic"
        /\ lastOp.diag.arg = lastOp.index

\* C14. Every fatal condition aborts with a diagnostic that says which
\* condition it was and carries the offending value: insert past the end and
\* remove past the end report the index, and remove reports an empty Vec and
\* an index out of range as different conditions.
C14_DiagnosticsCarryValue ==
    lastOp.outcome = "panic" =>
        /\ lastOp.diag.text # ""
        /\ (lastOp.op = "insert" /\ lastOp.diag.text = "overflow")
              => lastOp.diag.arg = lastOp.index
        /\ lastOp.op = "remove" =>
              /\ lastOp.diag.text =
                    IF lastOp.pre.len = 0 THEN "empty" ELSE "out of index"
              /\ lastOp.pre.len > 0 => lastOp.diag.arg = lastOp.index

\* The block a buffer of capacity c at p holds: none for c = 0, else the
\* block at p, of c elements.
HoldsBlock(h, p, c) == c > 0 => Allocated(h, p, LayoutArray(c))

\* C15. grow is atomic with respect to allocator failure: on null it panics
\* "oom" after its one request, with ptr, cap, len and the heap as before, so
\* that the buffer still describes its block; on success ptr and cap are
\* updated together, to the new block of the new capacity, and the block left
\* behind by a move is free.  A push or insert that did not grow has changed
\* neither.  For Vec::grow and RawVec::grow.
C15_GrowAtomic ==
    /\ lastOp.diag.text = "oom" =>
          /\ lastOp.outcome = "panic"
          /\ Len(lastOp.reqs) = 1
          /\ VecFields = lastOp.pre
          /\ HoldsBlock(heap, ptr, cap)
    /\ lastOp.grew =>
          /\ cap = IF lastOp.pre.cap = 0 THEN 1 ELSE lastOp.pre.cap * 2
          /\ Allocated(heap, ptr, LayoutArray(cap))
          /\ (lastOp.pre.cap > 0 /\ ptr # lastOp.pre.ptr)
                => heap[lastOp.pre.ptr] = FreeBlock
    /\ (lastOp.op \in {"push", "insert"} /\ ~lastOp.grew) =>
          (cap = lastOp.pre.cap /\ ptr = lastOp.pre.ptr)
    /\ raw_lastOp.diag.text = "oom" =>
          /\ raw_lastOp.outcome = "panic"
          /\ Len(raw_lastOp.reqs) = 1
          /\ [ptr |-> raw_ptr, cap |-> raw_cap, heap |-> heap] = raw_lastOp.pre
          /\ HoldsBlock(heap, raw_ptr, raw_cap)
    /\ raw_lastOp.grew =>
          /\ raw_cap = IF raw_lastOp.pre.cap = 0 THEN 1 ELSE raw_lastOp.pre.cap * 2
          /\ Allocated(heap, raw_ptr, LayoutArray(raw_cap))
          /\ (raw_lastOp.pre.cap > 0 /\ raw_ptr # raw_lastOp.pre.ptr)
                => heap[raw_lastOp.pre.ptr] = FreeBlock
    /\ (raw_lastOp.op = "grow" /\ ~raw_lastOp.grew) =>
          (raw_cap = raw_lastOp.pre.cap /\ raw_ptr = raw_lastOp.pre.ptr)

\* C15 witness: the reallocation asked by an insert into a full Vec of at
\* least two elements has failed.
C15_Witness ==
    /\ lastOp.op = "insert" /\ lastOp.diag.text = "oom"
    /\ lastOp.pre.cap >= 2
    /\ lastOp.reqs[1].fn = "realloc"

\* The heap holds the block of c elements at p and no other block.
OnlyBlock(h, p, c) ==
    /\ c > 0 => (p \in Addrs /\ h[p].bytes = c * ElemSize)
    /\ \A a \in Addrs : (c = 0 \/ a # p) => h[a] = FreeBlock

\* What a grow at capacity c asks: a first block of one element, or the
\* block of c elements resized to 2 * c elements.
GrowAsks(c) ==
    IF c = 0 THEN Request("alloc", 0, ElemSize)
    ELSE Request("realloc", c * ElemSize, (2 * c) * ElemSize)

\* What a drop at capacity c asks: nothing, or the block of c elements freed.
DropAsks(c) == IF c = 0 THEN <<>> ELSE <<Request("dealloc", c * ElemSize, 0)>>

\* C16. Allocation size: a live container holds a block exactly when its
\* capacity is positive, of capacity * size_of(T) bytes; a grow asks for one
\* element first and then for the block of cap elements to become one of
\* 2 * cap; drop frees the block with the layout of cap elements, or does
\* nothing at capacity 0; no request names a size the block does not have.
C16_AllocationSize ==
    /\ ~ub
    /\ pc = "live" => OnlyBlock(heap, ptr, cap)
    /\ pc = "dropped" => OnlyBlock(heap, ptr, 0)
    /\ lastOp.op \in {"push", "insert"} =>
          lastOp.reqs = IF lastOp.pre.len = lastOp.pre.cap
                        THEN <<GrowAsks(lastOp.pre.cap)>> ELSE <<>>
    /\ lastOp.op = "drop" => lastOp.reqs = DropAsks(lastOp.pre.cap)
    /\ \A k \in 1..Len(lastOp.reqs) :
          lastOp.reqs[k].fn # "alloc" =>
              lastOp.reqs[k].size = lastOp.pre.heap[lastOp.pre.ptr].bytes
    /\ raw_pc = "live" => OnlyBlock(heap, raw_ptr, raw_cap)
    /\ raw_pc = "dropped" => OnlyBlock(heap, raw_ptr, 0)
    /\ raw_lastOp.op = "grow" => raw_lastOp.reqs = <<GrowAsks(raw_lastOp.pre.cap)>>
    /\ raw_lastOp.op = "drop" => raw_lastOp.reqs = DropAsks(raw_lastOp.pre.cap)
    /\ \A k \in 1..Len(raw_lastOp.reqs) :
          raw_lastOp.reqs[k].fn # "alloc" =>
              raw_lastOp.reqs[k].size = raw_lastOp.pre.heap[raw_lastOp.pre.ptr].bytes

\* C16 witness: a Vec that grew three times, to four slots, has been dropped.
C16_Witness ==
    /\ pc = "dropped" /\ lastOp.op = "drop"
    /\ lastOp.pre.cap = 4
    /\ lastOp.reqs # <<>>

\* C17. Slot-access safety: a call writes only slots in [0, cap) of the
\* block the Vec holds after it, reads only slots in [0, len) as len was on
\* entry, each initialised, and touches no slot when the capacity is 0.
C17_SlotAccess ==
    pc # "absent" =>
        /\ ~ub
        /\ \A w \in lastOp.writes : 0 <= w /\ w < cap
        /\ \A r \in lastOp.reads : 0 <= r /\ r < lastOp.pre.len
        /\ \A r \in lastOp.reads :
              /\ r < Len(lastOp.pre.heap[lastOp.pre.ptr].data)
              /\ lastOp.pre.heap[lastOp.pre.ptr].data[r + 1] # Uninit
        /\ cap = 0 => (lastOp.reads = {} /\ lastOp.writes = {})

\* C17 witness: an insert into a full Vec of at least two elements has
\* shifted an element into the first slot the growth added.
C17_Witness ==
    /\ lastOp.op = "insert" /\ lastOp.outcome = "ok" /\ lastOp.grew
    /\ lastOp.pre.cap >= 2
    /\ lastOp.pre.cap \in lastOp.writes
    /\ lastOp.reads # {}

\* C18. Capacity changes only through grow, and grow runs only on
\* exhaustion: a push, or an insert that returns, calls grow once when
\* len == cap on entry and not otherwise; pop, remove, deref and deref_mut
\* leave cap, ptr and the block sizes alone and ask nothing of the allocator;
\* no call lowers the capacity, which is 0 or a power of two.
C18_CapacityOnlyGrows ==
    pc # "absent" =>
        /\ (lastOp.op = "push" \/ (lastOp.op = "insert" /\ lastOp.outcome = "ok"))
              => Len(lastOp.reqs) = IF lastOp.pre.len = lastOp.pre.cap THEN 1 ELSE 0
        /\ lastOp.op \in {"pop", "remove", "deref", "deref_mut"} =>
              /\ cap = lastOp.pre.cap /\ ptr = lastOp.pre.ptr
              /\ lastOp.reqs = <<>>
              /\ \A a \in Addrs : heap[a].bytes = lastOp.pre.heap[a].bytes
        /\ cap >= lastOp.pre.cap
        /\ cap # lastOp.pre.cap => lastOp.grew
        /\ cap = 0 \/ \E k \in 0..cap : cap = 2 ^ k

\* C18 witness: a remove has emptied a Vec of four slots, which keeps them.
C18_Witness ==
    /\ pc = "live"
    /\ lastOp.op = "remove" /\ lastOp.outcome = "ok"
    /\ len = 0 /\ cap = 4

\* C19. The Vec manages its storage as the RawVec does: side by side on the
\* same growth triggers and a final drop, with the allocator answering both
\* alike, each step sees the same allocator requests from both (one element
\* allocated, cap elements reallocated to 2 * cap, cap elements deallocated)
\* and leaves both with the same capacity.
C19_SameStorage ==
    /\ ~ub
    /\ cap = raw_cap
    /\ grows = raw_grows
    /\ lastOp.reqs = raw_lastOp.reqs
    /\ lastOp.pre.cap = raw_lastOp.pre.cap
    /\ lastOp.reqs \in IF lastOp.op = "drop" THEN {DropAsks(lastOp.pre.cap)}
                       ELSE {<<>>, <<GrowAsks(lastOp.pre.cap)>>}
    /\ (ptr = Dangling) = (raw_ptr = Dangling)

\* C19 witness: both have grown three times, to four slots, and been dropped.
C19_Witness ==
    /\ pc = "dropped" /\ raw_pc = "dropped"
    /\ grows = 3 /\ raw_grows = 3
    /\ raw_lastOp.op = "drop"
    /\ raw_lastOp.reqs = DropAsks(4)

====
